---- MODULE Spec2Model ----
(***************************************************************************)
(* Resumable parallel multipart transfer of the OSS Go SDK:                *)
(* Bucket.UploadFile (oss/upload.go) and Bucket.CopyFile (oss/multicopy.go)*)
(* with their worker pool, scheduler, aggregator loop and checkpoint file. *)
(***************************************************************************)
EXTENDS Integers, Sequences, FiniteSets, TLC

\* ---------------------------------------------------------------- bounds
\* Successive invocations of the entry point with the same options.
MaxRuns == 2
\* Largest worker count (the Routines option) explored.
MaxRoutines == 2

\* Sizes are counted in KiB. Source sizes and the part size in range that
\* are explored: 250/100 gives three parts (100,100,50), 80/100 gives one.
SrcSizes == {80, 250}
InitSize == CHOOSE s \in SrcSizes : \A t \in SrcSizes : t <= s
ArgPartSize == CHOOSE p \in {100} : TRUE
\* Values of a source's modification stamp (mtime / Last-Modified) and ETag.
Stamps == {"t0", "t1"}
ObjEtags == {"e0", "e1"}

\* ------------------------------------------------------------ constants
uploadCpMagic == "FE8BB4EA-B593-4FAC-AD7A-2459A36E2E62"
copyCpMagic == "84F1F18C-FF1D-403B-A1D8-9DEB5F65910A"
\* Declared in oss/download.go; the checkpoint layout makes the three magic
\* constants distinct per mode.
downloadCpMagic == "92611BED-89E2-46B6-89E5-72F273D4B0A3"

\* Declared in oss/const.go: 100 KiB and 5 GiB, here in KiB.
MinPartSize == 100
MaxPartSize == 5 * 1024 * 1024

\* The part sizes an invocation is given: one in range, one below the
\* minimum, one above the maximum.
PartSizes == {ArgPartSize, MinPartSize - 1, MaxPartSize + 1}

\* The options given: no Routines option (<<>>), or Routines(n) (<<n>>).
RoutineRequests == {<<>>} \cup {<<n>> : n \in 0..MaxRoutines}

\* Paths and keys are sequences of name and separator tokens; the empty
\* string is <<>> and string concatenation is \o.
FilePathArg == <<"sample", "/", "local.jpg">>
\* Another local file a later invocation may be given.
OtherFilePath == <<"sample", "/", "other.jpg">>
ObjectKeyArg == <<"dir", "/", "object">>
\* Another object key a later invocation may be given.
OtherObjectKey == <<"dir", "/", "other">>
\* Declared in oss/const.go.
CheckpointFileSuffix == <<".cp">>
\* The Checkpoint option (oss/option.go): an option value that carries one
\* cpConfig, which getCpConfig reaches through a pointer.  The option list
\* holds at most one of them.
Checkpoint(isEnable, filePath) == <<[IsEnable |-> isEnable, FilePath |-> filePath]>>
\* The Checkpoint options given: none, Checkpoint(true, ""), or
\* Checkpoint(true, path).
CpOptions == {<<>>, Checkpoint(TRUE, <<>>), Checkpoint(TRUE, <<"my", "/", "state.cp">>)}
SrcBucketArg == "srcbucket"
SrcKeyArg == "srcobject"
DestBucketArg == "bucket"

\* ------------------------------------------------------------ data
\* filepath.Base: the last element of the path, trailing separators dropped;
\* "." for the empty path and "/" for a path of separators only.
RECURSIVE Base(_)
Base(path) ==
    IF path = <<>> THEN <<".">>
    ELSE IF path[Len(path)] = "/"
         THEN (IF Len(path) = 1 THEN <<"/">> ELSE Base(SubSeq(path, 1, Len(path) - 1)))
    ELSE LET seps == {i \in 1..Len(path) : path[i] = "/"}
             last == IF seps = {} THEN 0
                     ELSE CHOOSE i \in seps : \A j \in seps : j <= i
         IN  SubSeq(path, last + 1, Len(path))

\* A getCpConfig that turns checkpointing on when no option asks for it.
getCpConfigOn(option, filePath) ==
    IF option = <<>> THEN [IsEnable |-> TRUE, FilePath |-> filePath \o CheckpointFileSuffix]
    ELSE IF option[1].IsEnable /\ option[1].FilePath = <<>>
         THEN [option[1] EXCEPT !.FilePath = filePath \o CheckpointFileSuffix]
         ELSE option[1]

\* getCpConfig: the option's config (the zero config without the option),
\* its empty path replaced by filePath + CheckpointFileSuffix when enabled.
getCpConfig(option, filePath) ==
    IF option = <<>> THEN [IsEnable |-> FALSE, FilePath |-> <<>>]
    ELSE IF option[1].IsEnable /\ option[1].FilePath = <<>>
         THEN [option[1] EXCEPT !.FilePath = filePath \o CheckpointFileSuffix]
         ELSE option[1]

\* The config the caller's Checkpoint option holds after getCpConfig: the
\* option carries a *cpConfig and getCpConfig writes the default path into it.
optionAfterGetCpConfig(option, filePath) ==
    IF option = <<>> THEN <<>> ELSE <<getCpConfig(option, filePath)>>

\* An entry point that forgets the upper limit of the part size.
partSizeInvalidNoMax(partSize) == partSize < MinPartSize

\* UploadFile / CopyFile: partSize < MinPartSize || partSize > MaxPartSize.
partSizeInvalid(partSize) == partSize < MinPartSize \/ partSize > MaxPartSize

\* getRoutines whose lower limit is off by one.
getRoutinesFromZero(rq) ==
    IF rq = <<>> THEN 1
    ELSE IF rq[1] < 0 THEN 1
    ELSE IF rq[1] > 100 THEN 100
    ELSE rq[1]

\* getRoutines: 1 without the option, else the option's value brought into
\* 1..100.
getRoutines(rq) ==
    IF rq = <<>> THEN 1
    ELSE IF rq[1] < 1 THEN 1
    ELSE IF rq[1] > 100 THEN 100
    ELSE rq[1]

Min2(a, b) == IF a < b THEN a ELSE b

\* UploadPart{}: the zero token.
ZeroUploadPart == [PartNumber |-> 0, ETag |-> <<>>]
\* The ETag the remote returns for part n of session id.
PartETag(id, n) == <<"etag", id, n>>

NoMD5 == <<>>
\* base64(md5(js)): a digest, equal exactly when the digested bytes are equal.
Md5B64(js) == <<"md5", js>>
\* json.Marshal of a checkpoint struct: every field, by name.
JsonMarshal(rec) == rec

\* oss/utils.go GetPartEnd: inclusive end of the part starting at begin.
GetPartEnd(begin, total, per) ==
    IF begin + per > total THEN total - 1 ELSE begin + per - 1

CeilDiv(a, b) == (a + b - 1) \div b

\* The planner's limit: a transfer has at most 10,000 parts.
MaxParts == 10000
\* A source one part too long for the part size in range.
HugeSize == (MaxParts + 1) * ArgPartSize

\* SplitFileByPartSize's error: too many parts for this part size.
tooManyParts(size, partSize) == CeilDiv(size, partSize) > MaxParts

\* SplitFileByPartSize: chunks numbered from 1, the last one may be shorter;
\* an empty file gives one zero-byte chunk.
SplitFileByPartSize(size, partSize) ==
    IF size = 0
    THEN << [Number |-> 1, Offset |-> 0, Size |-> 0] >>
    ELSE [i \in 1..CeilDiv(size, partSize) |->
            [Number |-> i,
             Offset |-> (i - 1) * partSize,
             Size   |-> Min2(partSize, size - (i - 1) * partSize)]]

\* getCopyParts that does not cut the last part at the object's end.
getCopyPartsNoEnd(objectSize, partSize) ==
    [i \in 1..CeilDiv(objectSize, partSize) |->
        [Number |-> i,
         Start  |-> (i - 1) * partSize,
         End    |-> (i - 1) * partSize + partSize - 1]]

\* getCopyParts: for offset := 0; offset < objectSize; offset += partSize.
getCopyParts(objectSize, partSize) ==
    [i \in 1..CeilDiv(objectSize, partSize) |->
        [Number |-> i,
         Start  |-> (i - 1) * partSize,
         End    |-> GetPartEnd((i - 1) * partSize, objectSize, partSize)]]

\* A part size that forgets that End is the last byte of the part.
copyPartSizeShort(p) == p.End - p.Start

copyPartSize(p) == p.End - p.Start + 1

\* The sum of s[lo..hi], by halves: a plan of ten thousand parts is summed
\* at a recursion depth of fourteen.
RECURSIVE SumRange(_, _, _)
SumRange(s, lo, hi) ==
    IF lo > hi THEN 0
    ELSE IF lo = hi THEN s[lo]
    ELSE SumRange(s, lo, (lo + hi) \div 2) + SumRange(s, (lo + hi) \div 2 + 1, hi)

SumSeq(s) == SumRange(s, 1, Len(s))

\* getTotalBytes(chunks)
getTotalBytes(cs) == SumSeq([i \in 1..Len(cs) |-> cs[i].Size])
\* getSrcObjectBytes(parts)
getSrcObjectBytes(ps) == SumSeq([i \in 1..Len(ps) |-> copyPartSize(ps[i])])

\* SelectSeq over indices: the elements of s whose index satisfies keep.
RECURSIVE FilterRange(_, _, _, _)
FilterRange(s, keep, lo, hi) ==
    IF lo > hi THEN <<>>
    ELSE IF lo = hi THEN (IF keep[lo] THEN <<s[lo]>> ELSE <<>>)
    ELSE FilterRange(s, keep, lo, (lo + hi) \div 2)
         \o FilterRange(s, keep, (lo + hi) \div 2 + 1, hi)

FilterIdx(s, keep, i) == FilterRange(s, keep, i, Len(s))


\* ------------------------------------------------- upload checkpoint
\* calcFileMD5: a stub that returns the empty string.
calcFileMD5 == ""

\* The bytes a part transfer sends: <<part number, first byte, last byte>>.
\* UploadPartFromFile gets chunk.Offset and chunk.Size, UploadPartCopy gets
\* part.Start and part.End - part.Start + 1.
partRange(chunk) ==
    IF "Offset" \in DOMAIN chunk
    THEN <<chunk.Number, chunk.Offset, chunk.Offset + chunk.Size - 1>>
    ELSE <<chunk.Number, chunk.Start, chunk.Start + (chunk.End - chunk.Start + 1) - 1>>

\* uploadCheckpoint{}
ZeroUploadCp ==
    [Magic |-> "", MD5 |-> NoMD5, FilePath |-> <<>>,
     FileStat |-> [Size |-> 0, LastModified |-> "", MD5 |-> ""],
     ObjectKey |-> <<>>, UploadID |-> 0, Parts |-> <<>>]

\* The digest dump stores and isValid recomputes: over the record with MD5 blank.
cpDigest(cp) == Md5B64(JsonMarshal([cp EXCEPT !.MD5 = NoMD5]))

\* isValid without the comparison of the modification time.
uploadIsValidNoMtime(cp, st) ==
    IF cp.Magic # uploadCpMagic \/ cpDigest(cp) # cp.MD5
    THEN FALSE
    ELSE ~(\/ cp.FileStat.Size # st.Size
           \/ cp.FileStat.MD5 # calcFileMD5)

\* uploadCheckpoint.isValid against the stat of the local file.
uploadIsValid(cp, st) ==
    IF cp.Magic # uploadCpMagic \/ cpDigest(cp) # cp.MD5
    THEN FALSE
    ELSE ~(\/ cp.FileStat.Size # st.Size
           \/ cp.FileStat.LastModified # st.LastModified
           \/ cp.FileStat.MD5 # calcFileMD5)

\* An updatePart that stores the token and leaves the flag as it was.
updatePartTokenOnly(cp, part) ==
    [cp EXCEPT !.Parts[part.PartNumber] = [@ EXCEPT !.Part = part]]

\* uploadCheckpoint.updatePart
updatePart(cp, part) ==
    [cp EXCEPT !.Parts[part.PartNumber] =
        [@ EXCEPT !.Part = part, !.IsCompleted = TRUE]]

\* todoParts that returns every part, completed or not.
todoPartsAll(cp) == [i \in 1..Len(cp.Parts) |-> cp.Parts[i].Chunk]

\* uploadCheckpoint.todoParts
todoParts(cp) ==
    LET ps == FilterIdx(cp.Parts, [i \in 1..Len(cp.Parts) |-> ~cp.Parts[i].IsCompleted], 1)
    IN  [i \in 1..Len(ps) |-> ps[i].Chunk]

\* uploadCheckpoint.allParts
allParts(cp) == [i \in 1..Len(cp.Parts) |-> cp.Parts[i].Part]

\* uploadCheckpoint.getCompletedBytes
getCompletedBytes(cp) ==
    SumSeq([i \in 1..Len(cp.Parts) |->
              IF cp.Parts[i].IsCompleted THEN cp.Parts[i].Chunk.Size ELSE 0])

\* A prepare that plans only when the record has no part list yet, and so
\* keeps the flags and tokens of the record it was given.
prepareKeepParts(cp, objectKey, filePath, partSize, st, uploadID) ==
    LET ps == SplitFileByPartSize(st.Size, partSize)
    IN  [cp EXCEPT
           !.Magic = uploadCpMagic,
           !.FilePath = filePath,
           !.ObjectKey = objectKey,
           !.FileStat = [Size |-> st.Size, LastModified |-> st.LastModified,
                         MD5 |-> calcFileMD5],
           !.Parts = IF Len(@) = Len(ps) THEN @
                     ELSE [i \in 1..Len(ps) |->
                             [Chunk |-> ps[i], Part |-> ZeroUploadPart,
                              IsCompleted |-> FALSE]],
           !.UploadID = uploadID]

\* prepare(): the checkpoint of a fresh session, given the stat of the local
\* file and the upload id InitiateMultipartUpload returned.
prepare(cp, objectKey, filePath, partSize, st, uploadID) ==
    LET ps == SplitFileByPartSize(st.Size, partSize)
    IN  [cp EXCEPT
           !.Magic = uploadCpMagic,
           !.FilePath = filePath,
           !.ObjectKey = objectKey,
           !.FileStat = [Size |-> st.Size, LastModified |-> st.LastModified,
                         MD5 |-> calcFileMD5],
           !.Parts = [i \in 1..Len(ps) |->
                        [Chunk |-> ps[i], Part |-> ZeroUploadPart,
                         IsCompleted |-> FALSE]],
           !.UploadID = uploadID]

\* --------------------------------------------------- copy checkpoint
\* copyCheckpoint{}
ZeroCopyCp ==
    [Magic |-> "", MD5 |-> NoMD5, SrcBucketName |-> "", SrcObjectKey |-> "",
     DestBucketName |-> "", DestObjectKey |-> <<>>, CopyID |-> 0,
     ObjStat |-> [Size |-> 0, LastModified |-> "", Etag |-> ""],
     Parts |-> <<>>, CopyParts |-> <<>>, PartStat |-> <<>>]

\* copyCheckpoint.isValid against the source object's HEAD result.
copyIsValid(cp, meta) ==
    IF cp.Magic # downloadCpMagic \/ cpDigest(cp) # cp.MD5
    THEN FALSE
    ELSE ~(\/ cp.ObjStat.Size # meta.Size
           \/ cp.ObjStat.LastModified # meta.LastModified
           \/ cp.ObjStat.Etag # meta.Etag)

\* An update that sets the part's flag and forgets its token.
copyUpdateFlagOnly(cp, part) ==
    [cp EXCEPT !.PartStat[part.PartNumber] = TRUE]

\* copyCheckpoint.update
copyUpdate(cp, part) ==
    [cp EXCEPT !.CopyParts[part.PartNumber] = part,
               !.PartStat[part.PartNumber] = TRUE]

\* copyCheckpoint.todoParts
copyTodoParts(cp) ==
    FilterIdx(cp.Parts, [i \in 1..Len(cp.PartStat) |-> ~cp.PartStat[i]], 1)

\* copyCheckpoint.getCompletedBytes
copyGetCompletedBytes(cp) ==
    SumSeq([i \in 1..Len(cp.Parts) |->
              IF cp.PartStat[i] THEN copyPartSize(cp.Parts[i]) ELSE 0])

\* copyCheckpoint.prepare: the checkpoint of a fresh session, given the HEAD
\* result of the source object and the upload id Initiate returned.
copyPrepare(cp, srcBucket, srcObjectKey, destBucket, destObjectKey, partSize, meta, uploadID) ==
    LET ps == getCopyParts(meta.Size, partSize)
    IN  [cp EXCEPT
           !.Magic = copyCpMagic,
           !.SrcBucketName = srcBucket,
           !.SrcObjectKey = srcObjectKey,
           !.DestBucketName = destBucket,
           !.DestObjectKey = destObjectKey,
           !.ObjStat = [Size |-> meta.Size, LastModified |-> meta.LastModified,
                        Etag |-> meta.Etag],
           !.Parts = ps,
           !.PartStat = [i \in 1..Len(ps) |-> FALSE],
           !.CopyParts = [i \in 1..Len(ps) |-> ZeroUploadPart],
           !.CopyID = uploadID]

\* dump: the record written to the checkpoint path, its MD5 field holding the
\* digest of the record marshalled with MD5 blank.
dump(cp) == [kind |-> "file", rec |-> [cp EXCEPT !.MD5 = cpDigest(cp)]]

\* What ioutil.WriteFile can do in dump: write the file; fail before it
\* touched the file ("kept"); fail after truncating it ("torn"). The error dump
\* returns is dropped by its callers. A write fails at most once in a
\* behaviour, and not in one that is changed from outside.
DumpOutcomes(mayFail) == IF mayFail THEN {"ok", "kept", "torn"} ELSE {"ok"}

NoFile == [kind |-> "none"]
Garbage == [kind |-> "garbage"]

\* A file that is a JSON object in which one value has another type than its
\* field (a number where a string is declared): the record json.Unmarshal
\* leaves behind has that field at its zero value and every other field as
\* the file gives it. In an upload record the field is FileStat.MD5, which
\* dump always writes empty; in a copy record it is SrcObjectKey.
Mistyped(rec) ==
    [kind |-> "mistyped",
     rec |-> IF "FileStat" \in DOMAIN rec THEN [rec EXCEPT !.FileStat.MD5 = ""]
             ELSE [rec EXCEPT !.SrcObjectKey = ""]]

\* load: ioutil.ReadFile and json.Unmarshal into a zero checkpoint. An absent
\* file and bytes that are not JSON are an error and leave the checkpoint zero;
\* a value of the wrong type is an error too, reported after every other field
\* was stored.
loadErr(d) == d.kind # "file"
load(d, zero) == IF d.kind \in {"file", "mistyped"} THEN d.rec ELSE zero

\* ------------------------------------------------------- multipart
\* sort.Sort(uploadParts(parts)): ascending PartNumber.
RECURSIVE InsertPart(_, _)
InsertPart(p, s) ==
    IF s = <<>> THEN <<p>>
    ELSE IF p.PartNumber < Head(s).PartNumber THEN <<p>> \o s
    ELSE <<Head(s)>> \o InsertPart(p, Tail(s))

\* A sort whose Less is reversed: descending PartNumber.
RECURSIVE sortPartsDesc(_)
sortPartsDesc(s) ==
    IF s = <<>> THEN <<>>
    ELSE LET r == sortPartsDesc(Tail(s))
             gt == SelectSeq(r, LAMBDA q : q.PartNumber > Head(s).PartNumber)
             le == SelectSeq(r, LAMBDA q : q.PartNumber <= Head(s).PartNumber)
         IN  gt \o <<Head(s)>> \o le

RECURSIVE sortParts(_)
sortParts(s) == IF s = <<>> THEN <<>> ELSE InsertPart(Head(s), sortParts(Tail(s)))

\* An exit test that is off by one.
loopDoneEarly(completed, n) == completed >= n - 1

\* An exit test made only after a result was received: a loop that waits
\* before it tests.
loopDoneAfterResult(completed, n) == completed > 0 /\ completed >= n

\* The aggregator loop's exit test: completed >= len(chunks).
loopDone(completed, n) == completed >= n

\* A coordinator that returns an error of its own instead of the one received.
returnedErrGeneric(err) == <<"part", 0>>

\* The value returned for a failure received from the failed channel.
returnedErr(err) == err

\* Coordinators that abort in every variant.
abortAlways(withCp) == TRUE
abortOnCompleteAlways(withCp) == TRUE

\* Whether the aggregator aborts the session when a part failed:
\* uploadFile and copyFile do, the checkpointed variants do not.
abortOnPartFailure(withCp) == ~withCp

\* Whether the session is aborted when CompleteMultipartUpload failed:
\* uploadFile and copyFile do, complete() of a checkpoint only returns.
abortOnCompleteFailure(withCp) == ~withCp

\* A coordinator that goes on with its loop after a failure.
afterFailedContinue == "loop"

\* case err := <-failed ends with return err: the coordinator is gone.
afterFailed == "idle"

\* A receive that leaves the job in the channel.
jobsKept(js) == js

\* A receive from the jobs channel removes the job received.
jobsAfterRecv(js) == Tail(js)


\* ------------------------------------------------------------- state
VARIABLES
    args,            \* the arguments of the invocations: mode, the Checkpoint
                     \* option as the caller made it (cpOption), the config it
                     \* holds now (cpConf) and whether it enables checkpointing,
                     \* the Routines option and getRoutines' answer to it, part
                     \* size, and the object key and local file of the next call
    run,             \* invocations made so far
    src,             \* the source now: Size, LastModified, Etag (file stat / HEAD result)
    disk,            \* the checkpoint file
    sessions,        \* the remote's multipart sessions, by upload id
    edits,           \* what was changed from outside, or which write failed, so far
                     \* (at most one such event in a behaviour)
    pc,              \* the coordinator: idle, start, loop, complete
    ret,             \* what the last invocation returned
    valid,           \* the coordinator's local: isValid's answer
    cp,              \* ucp / ccp: the checkpoint in memory
    chunks,          \* the parts handed to the scheduler (todo list or plan)
    parts,           \* the token array of a run without checkpoint (parts / ups)
    imur,            \* the session the workers upload to
    completed,
    completedBytes,
    totalBytes,
    events,          \* progress events published in this run
    jobs, jobsClosed, schedIdx, results, die, started, workers,
    calls,           \* remote calls issued in this run, and the checkpoint
                     \* paths it read, wrote or removed
    handed,          \* how often each part number was received from jobs in this run
    failRecv,        \* failures the aggregator received in this run
    startDisk,       \* the checkpoint file as the run found it
    startSrc         \* the source as the run found it

envVars == <<args, src, disk, sessions>>
coordVars == <<pc, ret, valid, cp, chunks, parts, imur, completed, completedBytes,
               totalBytes, events>>
poolVars == <<jobs, jobsClosed, schedIdx, results, die, started, workers>>
histVars == <<calls, handed, failRecv, startDisk, startSrc>>
vars == <<args, run, src, disk, sessions, edits, pc, ret, valid, cp, chunks, parts,
          imur, completed, completedBytes, totalBytes, events, jobs, jobsClosed,
          schedIdx, results, die, started, workers, calls, handed, failRecv,
          startDisk, startSrc>>

MaxN == CeilDiv(InitSize, ArgPartSize)
Workers == 1..args.routines

RetNone == [kind |-> "none", err |-> <<>>]
RetNil == [kind |-> "nil", err |-> <<>>]
RetErr(e) == [kind |-> "err", err |-> e]

ZeroCp(mode) == IF mode = "upload" THEN ZeroUploadCp ELSE ZeroCopyCp
ZeroImur == [Key |-> <<>>, UploadID |-> 0]
ZeroCalls ==
    [Initiate |-> 0, Head |-> 0, Part |-> [n \in 1..MaxN |-> 0], PartOK |-> {},
     PartIds |-> {}, PartKeys |-> {}, Ranges |-> {}, Complete |-> <<>>,
     Abort |-> <<>>, CpFiles |-> {}]
IdleWorker == [pc |-> "none", chunk |-> <<>>, out |-> <<>>]

\* What the entry point passes to getCpConfig as the file path.
basePathOf(mode, key, file) == IF mode = "upload" THEN file ELSE Base(key)
cpBasePath == basePathOf(args.mode, args.objectKey, args.filePath)

\* The path the entry point hands to its coordinator: cpConf.FilePath.
cpFilePath == getCpConfig(args.cpConf, cpBasePath).FilePath

\* A checkpoint path of the caller's own is explored without a Routines option.
ExplicitPathAlone(a) ==
    (a.cpOption # <<>> /\ a.cpOption[1].FilePath # <<>>) => a.requested = <<>>

\* The source of too many parts is explored without a Routines option and
\* with the default checkpoint path.
HugeAlone(a) ==
    a.requested = <<>> /\ (a.cpOption = <<>> \/ a.cpOption[1].FilePath = <<>>)

\* The empty source is explored without a Routines option and with the
\* default checkpoint path.
EmptyAlone(a) ==
    a.requested = <<>> /\ (a.cpOption = <<>> \/ a.cpOption[1].FilePath = <<>>)

\* A file that something else left at the default checkpoint path is explored
\* in the runs without the Checkpoint option and without a Routines option.
StrayAlone(a) == a.cpOption = <<>> /\ a.requested = <<>>

\* Other arguments in a later invocation, and a checkpoint file with a value
\* of the wrong JSON type, are explored without a Routines option.
LaterAlone(a) == a.requested = <<>>

Init ==
    /\ args \in {a \in [mode : {"upload", "copy"}, cpOption : CpOptions, cp : BOOLEAN,
                        requested : RoutineRequests, routines : 0..MaxRoutines,
                        partSize : PartSizes, objectKey : {ObjectKeyArg},
                        filePath : {FilePathArg}, cpConf : CpOptions] :
                    /\ a.cpConf = a.cpOption
                    /\ a.cp = getCpConfig(a.cpOption, <<>>).IsEnable
                    /\ a.routines = getRoutines(a.requested)
                    /\ ExplicitPathAlone(a)}
    /\ run = 0
    /\ src \in {[Size |-> z, LastModified |-> "t0", Etag |-> "e0"] :
                    z \in {InitSize} \cup (IF HugeAlone(args) THEN {HugeSize} ELSE {})
                                     \cup (IF EmptyAlone(args) THEN {0} ELSE {})}
    /\ disk \in {NoFile} \cup (IF StrayAlone(args) THEN {Garbage} ELSE {})
    /\ sessions = <<>>
    /\ edits = {}
    /\ pc = "idle"
    /\ ret = RetNone
    /\ valid = FALSE
    /\ cp = ZeroCp(args.mode)
    /\ chunks = <<>>
    /\ parts = <<>>
    /\ imur = ZeroImur
    /\ completed = 0
    /\ completedBytes = 0
    /\ totalBytes = 0
    /\ events = <<>>
    /\ jobs = <<>>
    /\ jobsClosed = FALSE
    /\ schedIdx = 0
    /\ results = <<>>
    /\ die = FALSE
    /\ started = FALSE
    /\ workers = [w \in 1..args.routines |-> IdleWorker]
    /\ calls = ZeroCalls
    /\ handed = [n \in 1..MaxN |-> 0]
    /\ failRecv = <<>>
    /\ startDisk = disk
    /\ startSrc = src

\* No goroutine of an earlier invocation can still take a step: the scheduler
\* has closed jobs and every worker has returned or blocks on the failed channel.
Quiescent ==
    ~started \/ (jobsClosed /\ \A w \in Workers : workers[w].pc \in {"done", "sendFail"})

\* ------------------------------------------------------- entry points
\* The object key and the local file the next invocation is given: those of
\* the invocation before, or, once, in an UploadFile with checkpointing,
\* another object key, or another local file of the same size and
\* modification time; with the options of the invocation before.
NextArguments ==
    {<<args.objectKey, args.filePath>>}
    \cup (IF run >= 1 /\ edits = {} /\ args.mode = "upload" /\ args.cp /\ LaterAlone(args)
          THEN {<<OtherObjectKey, args.filePath>>, <<args.objectKey, OtherFilePath>>}
          ELSE {})

\* The state an invocation starts from: fresh locals, nothing issued yet.
Enter(a) ==
    /\ pc = "idle"
    /\ run < MaxRuns
    /\ Quiescent
    /\ run' = run + 1
    /\ pc' = IF partSizeInvalid(args.partSize) THEN "idle" ELSE "start"
    /\ ret' = IF partSizeInvalid(args.partSize)
              THEN RetErr(<<"oss: part size invalid range (1024KB, 5GB]">>)
              ELSE RetNone
    /\ valid' = FALSE
    /\ cp' = ZeroCp(args.mode)
    /\ chunks' = <<>>
    /\ parts' = <<>>
    /\ imur' = ZeroImur
    /\ completed' = 0
    /\ completedBytes' = 0
    /\ totalBytes' = 0
    /\ events' = <<>>
    /\ jobs' = <<>>
    /\ jobsClosed' = FALSE
    /\ schedIdx' = 0
    /\ results' = <<>>
    /\ die' = FALSE
    /\ started' = FALSE
    /\ workers' = [w \in Workers |-> IdleWorker]
    /\ calls' = ZeroCalls
    /\ handed' = [n \in 1..MaxN |-> 0]
    /\ failRecv' = <<>>
    /\ startDisk' = disk
    /\ startSrc' = src
    /\ args' = [args EXCEPT
                  !.objectKey = a[1],
                  !.filePath = a[2],
                  !.cpConf = IF partSizeInvalid(args.partSize) THEN @
                             ELSE optionAfterGetCpConfig(@, basePathOf(args.mode, a[1], a[2]))]
    /\ edits' = IF a = <<args.objectKey, args.filePath>> THEN edits
                ELSE edits \cup {"args"}
    /\ UNCHANGED <<src, disk, sessions>>

\* Bucket.UploadFile: the part size check, getCpConfig, getRoutines and the
\* dispatch to uploadFileWithCp or uploadFile.
UploadFile == args.mode = "upload" /\ \E a \in NextArguments : Enter(a)

\* Bucket.CopyFile, likewise.
CopyFile == args.mode = "copy" /\ Enter(<<args.objectKey, args.filePath>>)

\* make(chan ...), go worker(...) x routines, go scheduler(...), completed := 0.
Spawn(cs) ==
    /\ chunks' = cs
    /\ jobs' = <<>>
    /\ jobsClosed' = FALSE
    /\ schedIdx' = 0
    /\ results' = <<>>
    /\ die' = FALSE
    /\ started' = TRUE
    /\ workers' = [w \in Workers |-> [IdleWorker EXCEPT !.pc = "recv"]]
    /\ completed' = 0
    /\ pc' = IF loopDone(0, Len(cs)) THEN "complete" ELSE "loop"

\* An invocation that returns err before any worker was started.
ReturnEarly(e) ==
    /\ pc' = "idle"
    /\ ret' = RetErr(e)
    /\ UNCHANGED <<valid, chunks, parts, imur, completed, completedBytes, totalBytes,
                   events>>
    /\ UNCHANGED poolVars

Event(type, done, total) == <<type, done, total>>


SetSession(id, st) ==
    IF id \in DOMAIN sessions THEN [sessions EXCEPT ![id] = st] ELSE sessions

\* ------------------------------------------- coordinators: up to the loop
\* uploadFile: SplitFileByPartSize, InitiateMultipartUpload, the Started
\* event, the workers and the scheduler.
uploadFile_Start ==
    /\ pc = "start" /\ args.mode = "upload" /\ ~args.cp
    /\ \E initOK \in BOOLEAN :
        LET id == Len(sessions) + 1
            tooMany == tooManyParts(src.Size, args.partSize)
            cs == SplitFileByPartSize(src.Size, args.partSize)
            total == getTotalBytes(cs)
        IN  /\ calls' = IF tooMany THEN calls ELSE [calls EXCEPT !.Initiate = @ + 1]
            /\ IF initOK /\ ~tooMany
               THEN /\ sessions' = Append(sessions, "open")
                    /\ imur' = [Key |-> args.objectKey, UploadID |-> id]
                    /\ parts' = [i \in 1..Len(cs) |-> ZeroUploadPart]
                    /\ completedBytes' = 0
                    /\ totalBytes' = total
                    /\ events' = <<Event("Started", 0, total)>>
                    /\ Spawn(cs)
                    /\ UNCHANGED <<ret, valid>>
               ELSE /\ ReturnEarly(IF tooMany THEN <<"too many parts">>
                                   ELSE <<"initiate">>)
                    /\ UNCHANGED sessions
    /\ UNCHANGED <<args, run, src, disk, edits, cp, handed, failRecv, startDisk, startSrc>>

\* uploadFileWithCp: load (and remove on error), isValid, prepare and remove
\* when not valid, todoParts, the Started event, the workers and the scheduler.
uploadFileWithCp_Start ==
    /\ pc = "start" /\ args.mode = "upload" /\ args.cp
    /\ \E initOK \in BOOLEAN :
        LET ucp0 == load(disk, ZeroUploadCp)
            disk1 == IF loadErr(disk) THEN NoFile ELSE disk
            st == [Size |-> src.Size, LastModified |-> src.LastModified]
            v == uploadIsValid(ucp0, st)
            \* prepare returns SplitFileByPartSize's error before it initiates
            tooMany == ~v /\ tooManyParts(src.Size, args.partSize)
            id == Len(sessions) + 1
            ucp == IF v THEN ucp0
                   ELSE prepare(ucp0, args.objectKey, args.filePath, args.partSize, st, id)
        IN  IF v \/ (initOK /\ ~tooMany)
            THEN /\ valid' = v
                 /\ cp' = ucp
                 /\ disk' = IF v THEN disk1 ELSE NoFile
                 /\ sessions' = IF v THEN sessions ELSE Append(sessions, "open")
                 /\ calls' = [calls EXCEPT !.Initiate = IF v THEN @ ELSE @ + 1,
                                           !.CpFiles = @ \cup {cpFilePath}]
                 /\ imur' = [Key |-> args.objectKey, UploadID |-> ucp.UploadID]
                 /\ completedBytes' = getCompletedBytes(ucp)
                 /\ totalBytes' = ucp.FileStat.Size
                 /\ events' = <<Event("Started", getCompletedBytes(ucp), ucp.FileStat.Size)>>
                 /\ Spawn(todoParts(ucp))
                 /\ UNCHANGED <<ret, parts>>
            ELSE /\ cp' = ucp0
                 /\ disk' = disk1
                 /\ calls' = [calls EXCEPT !.Initiate = IF tooMany THEN @ ELSE @ + 1,
                                           !.CpFiles = @ \cup {cpFilePath}]
                 /\ ReturnEarly(IF tooMany THEN <<"too many parts">>
                                ELSE <<"initiate">>)
                 /\ UNCHANGED sessions
    /\ UNCHANGED <<args, run, src, edits, handed, failRecv, startDisk, startSrc>>

\* copyFile: getCopyParts (a HEAD of the source), InitiateMultipartUpload, the
\* Started event, the workers and the scheduler.
copyFile_Start ==
    /\ pc = "start" /\ args.mode = "copy" /\ ~args.cp
    /\ \E o \in {"ok", "head", "initiate"} :
        LET id == Len(sessions) + 1
            cs == getCopyParts(src.Size, args.partSize)
            total == getSrcObjectBytes(cs)
        IN  /\ calls' = [calls EXCEPT !.Head = @ + 1,
                                      !.Initiate = IF o = "head" THEN @ ELSE @ + 1]
            /\ IF o = "ok"
               THEN /\ sessions' = Append(sessions, "open")
                    /\ imur' = [Key |-> args.objectKey, UploadID |-> id]
                    /\ parts' = [i \in 1..Len(cs) |-> ZeroUploadPart]
                    /\ completedBytes' = 0
                    /\ totalBytes' = total
                    /\ events' = <<Event("Started", 0, total)>>
                    /\ Spawn(cs)
                    /\ UNCHANGED <<ret, valid>>
               ELSE /\ ReturnEarly(<<o>>)
                    /\ UNCHANGED sessions
    /\ UNCHANGED <<args, run, src, disk, edits, cp, handed, failRecv, startDisk, startSrc>>

\* copyFileWithCp: load (and remove on error), isValid, prepare and remove when
\* not valid, todoParts, the Started event, the workers and the scheduler.
\* o = "head": the HEAD requests of this invocation fail.
copyFileWithCp_Start ==
    /\ pc = "start" /\ args.mode = "copy" /\ args.cp
    /\ \E o \in {"ok", "head", "initiate"} :
        LET ccp0 == load(disk, ZeroCopyCp)
            disk1 == IF loadErr(disk) THEN NoFile ELSE disk
            \* isValid reaches its HEAD only past the magic and MD5 test
            reachesHead == copyIsValid(ccp0, ccp0.ObjStat)
            v == o # "head" /\ copyIsValid(ccp0, src)
            id == Len(sessions) + 1
            ccp == IF v THEN ccp0
                   ELSE copyPrepare(ccp0, SrcBucketArg, SrcKeyArg, DestBucketArg,
                                    args.objectKey, args.partSize, src, id)
            heads == (IF reachesHead THEN 1 ELSE 0)
                     + (IF v THEN 0 ELSE IF o = "head" THEN 1 ELSE 2)
        IN  IF v \/ o = "ok"
            THEN /\ valid' = v
                 /\ cp' = ccp
                 /\ disk' = IF v THEN disk1 ELSE NoFile
                 /\ sessions' = IF v THEN sessions ELSE Append(sessions, "open")
                 /\ calls' = [calls EXCEPT !.Head = @ + heads,
                                           !.Initiate = IF v THEN @ ELSE @ + 1,
                                           !.CpFiles = @ \cup {cpFilePath}]
                 /\ imur' = [Key |-> args.objectKey, UploadID |-> ccp.CopyID]
                 /\ completedBytes' = copyGetCompletedBytes(ccp)
                 /\ totalBytes' = ccp.ObjStat.Size
                 /\ events' = <<Event("Started", copyGetCompletedBytes(ccp), ccp.ObjStat.Size)>>
                 /\ Spawn(copyTodoParts(ccp))
                 /\ UNCHANGED <<ret, parts>>
            ELSE /\ cp' = ccp0
                 /\ disk' = disk1
                 /\ calls' = [calls EXCEPT !.Head = @ + heads,
                                           !.Initiate = IF o = "head" THEN @ ELSE @ + 1,
                                           !.CpFiles = @ \cup {cpFilePath}]
                 /\ ReturnEarly(<<o>>)
                 /\ UNCHANGED sessions
    /\ UNCHANGED <<args, run, src, edits, handed, failRecv, startDisk, startSrc>>


\* ------------------------------------------------- the aggregator loop
\* case part := <-results, in each of the four coordinators.
RecvResult ==
    /\ pc = "loop"
    /\ results # <<>>
    /\ LET part == Head(results)
           n == part.PartNumber
           \* copyFileWithCp indexes the todo list with PartNumber-1
           panic == args.mode = "copy" /\ args.cp /\ n > Len(chunks)
           size == IF args.mode = "upload"
                   THEN (IF args.cp THEN cp.Parts[n].Chunk.Size ELSE chunks[n].Size)
                   ELSE (IF args.cp THEN (IF panic THEN 0 ELSE copyPartSize(chunks[n]))
                                    ELSE copyPartSize(chunks[n]))
           cp1 == IF ~args.cp THEN cp
                  ELSE IF args.mode = "upload" THEN updatePart(cp, part)
                  ELSE copyUpdate(cp, part)
       IN  /\ results' = Tail(results)
           /\ completed' = completed + 1
           /\ cp' = cp1
           /\ \E d \in DumpOutcomes(args.cp /\ edits = {}) :
                /\ disk' = IF ~args.cp THEN disk
                           ELSE CASE d = "ok" -> dump(cp1)
                                  [] d = "kept" -> disk
                                  [] OTHER -> Garbage
                /\ edits' = IF d = "ok" THEN edits ELSE edits \cup {"dump"}
           /\ parts' = IF args.cp THEN parts ELSE [parts EXCEPT ![n] = part]
           /\ IF panic
              THEN /\ pc' = "idle"
                   /\ ret' = [kind |-> "panic", err |-> <<"index out of range">>]
                   /\ workers' = [w \in Workers |-> [IdleWorker EXCEPT !.pc = "done"]]
                   /\ jobsClosed' = TRUE
                   /\ UNCHANGED <<completedBytes, events>>
              ELSE /\ completedBytes' = completedBytes + size
                   /\ events' = Append(events,
                                   Event("Data", completedBytes + size, totalBytes))
                   /\ pc' = IF loopDone(completed + 1, Len(chunks))
                            THEN "complete" ELSE "loop"
                   /\ UNCHANGED <<ret, workers, jobsClosed>>
    /\ UNCHANGED <<args, run, src, sessions, valid, chunks, imur, totalBytes,
                   jobs, schedIdx, die, started, calls, handed, failRecv, startDisk, startSrc>>

\* case err := <-failed: close(die), the Failed event, AbortMultipartUpload
\* in the coordinators without checkpoint, return err.
RecvFailed ==
    /\ pc = "loop"
    /\ \E w \in Workers :
        /\ workers[w].pc = "sendFail"
        /\ LET err == workers[w].out[1]
               abort == abortOnPartFailure(args.cp)
           IN  /\ workers' = [workers EXCEPT ![w] = [IdleWorker EXCEPT !.pc = "done"]]
               /\ die' = TRUE
               /\ failRecv' = Append(failRecv, err)
               /\ events' = Append(events, Event("Failed", completedBytes, totalBytes))
               /\ calls' = IF abort
                           THEN [calls EXCEPT !.Abort = Append(@, imur.UploadID)]
                           ELSE calls
               /\ sessions' = IF abort THEN SetSession(imur.UploadID, "aborted")
                              ELSE sessions
               /\ ret' = RetErr(returnedErr(err))
               /\ pc' = afterFailed
    /\ UNCHANGED <<args, run, src, disk, edits, valid, cp, chunks, parts, imur,
                   completed, completedBytes, totalBytes, jobs, jobsClosed, schedIdx,
                   results, started, handed, startDisk, startSrc>>

\* After the loop: the event, CompleteMultipartUpload (which sorts the
\* tokens), then AbortMultipartUpload or os.Remove of the checkpoint.
Complete ==
    /\ pc = "complete"
    /\ \E ok \in BOOLEAN :
        LET sess == IF ~args.cp THEN imur
                    ELSE IF args.mode = "upload"
                         THEN [Key |-> cp.ObjectKey, UploadID |-> cp.UploadID]
                         ELSE [Key |-> cp.DestObjectKey, UploadID |-> cp.CopyID]
            tokens == sortParts(IF ~args.cp THEN parts
                                ELSE IF args.mode = "upload" THEN allParts(cp)
                                ELSE cp.CopyParts)
            evType == IF args.mode = "upload" /\ ~args.cp THEN "Started" ELSE "Completed"
            abort == ~ok /\ abortOnCompleteFailure(args.cp)
        IN  /\ events' = Append(events, Event(evType, completedBytes, totalBytes))
            /\ calls' = [calls EXCEPT
                   !.Complete = Append(@, [UploadID |-> sess.UploadID, Key |-> sess.Key,
                                           Parts |-> tokens, ok |-> ok]),
                   !.Abort = IF abort THEN Append(@, sess.UploadID) ELSE @]
            /\ sessions' = IF ok THEN SetSession(sess.UploadID, "completed")
                           ELSE IF abort THEN SetSession(sess.UploadID, "aborted")
                           ELSE sessions
            /\ disk' = IF ok /\ args.cp THEN NoFile ELSE disk
            /\ ret' = IF ok THEN RetNil ELSE RetErr(<<"complete">>)
            /\ pc' = "idle"
    /\ UNCHANGED <<args, run, src, edits, valid, cp, chunks, parts, imur, completed,
                   completedBytes, totalBytes, handed, failRecv, startDisk, startSrc>>
    /\ UNCHANGED poolVars

\* ------------------------------------------------ scheduler and workers
\* scheduler / copyScheduler: every chunk is sent to jobs, in order, and jobs is
\* closed. jobs has room for len(chunks) chunks, so no send ever waits.
\* The transfers of a plan of more than MaxN parts are not followed.
scheduler ==
    /\ started /\ ~jobsClosed
    /\ schedIdx = 0
    /\ Len(chunks) <= MaxN
    /\ jobs' = jobs \o chunks
    /\ schedIdx' = Len(chunks)
    /\ jobsClosed' = TRUE
    /\ UNCHANGED <<results, die, started, workers, run, edits>>
    /\ UNCHANGED <<envVars, coordVars, histVars>>

\* worker / copyWorker: for chunk := range jobs
TakeJob(w) ==
    /\ workers[w].pc = "recv"
    /\ jobs # <<>>
    /\ LET chunk == Head(jobs)
       IN  /\ jobs' = jobsAfterRecv(jobs)
           /\ workers' = [workers EXCEPT ![w] = [pc |-> "xfer", chunk |-> <<chunk>>,
                                                 out |-> <<>>]]
           /\ handed' = [handed EXCEPT ![chunk.Number] = @ + 1]
    /\ UNCHANGED <<jobsClosed, schedIdx, results, die, started, run, edits, calls,
                   failRecv, startDisk, startSrc>>
    /\ UNCHANGED <<envVars, coordVars>>

\* worker / copyWorker: the range loop ends when jobs is closed and drained.
WorkerExit(w) ==
    /\ workers[w].pc = "recv"
    /\ jobs = <<>> /\ jobsClosed
    /\ workers' = [workers EXCEPT ![w] = [IdleWorker EXCEPT !.pc = "done"]]
    /\ UNCHANGED <<jobs, jobsClosed, schedIdx, results, die, started, run, edits>>
    /\ UNCHANGED <<envVars, coordVars, histVars>>

\* worker / copyWorker: the hook (defaultUploadPart / defaultCopyPartHook, which
\* return nil), then UploadPartFromFile / UploadPartCopy.
\* o = "part": the request fails; o = "ok": the remote returns the part's ETag.
Transfer(w) ==
    /\ workers[w].pc = "xfer"
    /\ \E o \in {"ok", "part"} :
        LET n == workers[w].chunk[1].Number
            part == [PartNumber |-> n, ETag |-> PartETag(imur.UploadID, n)]
        IN  /\ calls' = [calls EXCEPT
                            !.Part[n] = @ + 1,
                            !.PartIds = @ \cup {imur.UploadID},
                            !.PartKeys = @ \cup {imur.Key},
                            !.Ranges = @ \cup {partRange(workers[w].chunk[1])},
                            !.PartOK = IF o = "ok" THEN @ \cup {n} ELSE @]
            /\ workers' = [workers EXCEPT ![w] =
                             IF o = "ok"
                             THEN [@ EXCEPT !.pc = "deliver", !.out = <<part>>]
                             ELSE [@ EXCEPT !.pc = "sendFail", !.out = << <<o, n>> >>]]
    /\ UNCHANGED <<jobs, jobsClosed, schedIdx, results, die, started, run, edits,
                   handed, failRecv, startDisk, startSrc>>
    /\ UNCHANGED <<envVars, coordVars>>

\* worker / copyWorker: select { case <-die: return; default: }; results <- part
Deliver(w) ==
    /\ workers[w].pc = "deliver"
    /\ IF die
       THEN /\ workers' = [workers EXCEPT ![w] = [IdleWorker EXCEPT !.pc = "done"]]
            /\ UNCHANGED results
       ELSE /\ results' = Append(results, workers[w].out[1])
            /\ workers' = [workers EXCEPT ![w] = [IdleWorker EXCEPT !.pc = "recv"]]
    /\ UNCHANGED <<jobs, jobsClosed, schedIdx, die, started, run, edits>>
    /\ UNCHANGED <<envVars, coordVars, histVars>>

\* ------------------------------------------------------- environment
OtherOf(S, x) == CHOOSE y \in S : y # x

\* Between two invocations the source is replaced: another size, another
\* modification stamp, or (a remote object) another ETag.
ModifySource ==
    /\ pc = "idle" /\ run >= 1 /\ run < MaxRuns /\ Quiescent
    /\ edits = {}
    /\ src.Size \in SrcSizes
    /\ \E f \in (IF args.mode = "upload" THEN {"Size", "LastModified"}
                 ELSE {"Size", "LastModified", "Etag"}) :
        src' = CASE f = "Size" -> [src EXCEPT !.Size = OtherOf(SrcSizes, @)]
                 [] f = "LastModified" -> [src EXCEPT !.LastModified = OtherOf(Stamps, @)]
                 [] OTHER -> [src EXCEPT !.Etag = OtherOf(ObjEtags, @)]
    /\ edits' = edits \cup {"src"}
    /\ UNCHANGED <<args, run, disk, sessions>>
    /\ UNCHANGED <<coordVars, poolVars, histVars>>

\* Between two invocations the checkpoint file is edited without its MD5
\* being recomputed (the magic, the first part's completion flag, or the type
\* of one value), or is overwritten with bytes that do not parse, or (a copy
\* checkpoint) is written again with the magic copyCheckpoint.isValid asks
\* for and the MD5 of that content.
TamperCheckpoint ==
    /\ pc = "idle" /\ run >= 1 /\ run < MaxRuns /\ Quiescent
    /\ edits = {}
    /\ args.cp
    /\ disk.kind \in {"file", "none"}
    /\ \E k \in (IF disk.kind = "file"
                 THEN {"magic", "flag", "garbage"}
                      \cup (IF LaterAlone(args) THEN {"mistyped"} ELSE {})
                      \cup (IF args.mode = "copy" THEN {"resigned"} ELSE {})
                 ELSE {"garbage"}) :
        disk' = CASE k = "magic" ->
                       [disk EXCEPT !.rec.Magic =
                           IF args.mode = "upload" THEN copyCpMagic ELSE downloadCpMagic]
                  [] k = "flag" ->
                       IF args.mode = "upload"
                       THEN [disk EXCEPT !.rec.Parts[1].IsCompleted = ~@]
                       ELSE [disk EXCEPT !.rec.PartStat[1] = ~@]
                  [] k = "mistyped" -> Mistyped(disk.rec)
                  [] k = "resigned" -> dump([disk.rec EXCEPT !.Magic = downloadCpMagic])
                  [] OTHER -> Garbage
    /\ edits' = edits \cup {"cp"}
    /\ UNCHANGED <<args, run, src, sessions>>
    /\ UNCHANGED <<coordVars, poolVars, histVars>>

\* --------------------------------------------------- specification
Next ==
    \/ UploadFile
    \/ CopyFile
    \/ uploadFile_Start
    \/ uploadFileWithCp_Start
    \/ copyFile_Start
    \/ copyFileWithCp_Start
    \/ RecvResult
    \/ RecvFailed
    \/ Complete
    \/ scheduler
    \/ \E w \in Workers : TakeJob(w)
    \/ \E w \in Workers : WorkerExit(w)
    \/ \E w \in Workers : Transfer(w)
    \/ \E w \in Workers : Deliver(w)
    \/ ModifySource
    \/ TamperCheckpoint

Spec == Init /\ [][Next]_vars

\* The goroutines of a run: the coordinator (the caller's goroutine inside
\* UploadFile / CopyFile), the scheduler and each worker. The Go runtime runs
\* every goroutine that can take a step, and every remote call returns.
CoordinatorStep ==
    \/ uploadFile_Start \/ uploadFileWithCp_Start
    \/ copyFile_Start \/ copyFileWithCp_Start
    \/ RecvResult \/ RecvFailed \/ Complete

WorkerStep(w) ==
    /\ w \in DOMAIN workers
    /\ (TakeJob(w) \/ WorkerExit(w) \/ Transfer(w) \/ Deliver(w))

\* Nothing obliges the caller to invoke again, nor the surroundings to change
\* the source or the checkpoint file. The sources are those whose transfers
\* are followed to their end: plans of at most MaxN parts.
FairInit ==
    /\ Init
    /\ src.Size \in SrcSizes

FairSpec ==
    /\ FairInit
    /\ [][Next]_vars
    /\ WF_vars(CoordinatorStep)
    /\ WF_vars(scheduler)
    /\ \A w \in 1..MaxRoutines : WF_vars(WorkerStep(w))

\* ------------------------------------------------------ properties
\* The current invocation has gone past its start-up (load, isValid, prepare).
Ran == run >= 1 /\ pc # "start"

\* The number of parts the plan of the current invocation's source has: an
\* empty file is uploaded as one part of no bytes, an empty object is copied
\* as no part at all.
PlanLen ==
    IF startSrc.Size = 0 THEN (IF args.mode = "upload" THEN 1 ELSE 0)
    ELSE CeilDiv(startSrc.Size, args.partSize)

\* No part transfer of the current invocation has failed.
NoPartFailed == \A n \in 1..MaxN : calls.Part[n] >= 1 => n \in calls.PartOK

\* The file found at the checkpoint path is a checkpoint dump wrote, of the
\* given magic.
GenuineCp(d, magic) ==
    d.kind = "file" /\ d.rec.Magic = magic /\ d.rec.MD5 = cpDigest(d.rec)

\* The fingerprint the checkpoint recorded is that of the source as the
\* invocation found it.
UploadStatSame(d) ==
    /\ d.rec.FileStat.Size = startSrc.Size
    /\ d.rec.FileStat.LastModified = startSrc.LastModified

CopyStatSame(d) ==
    /\ d.rec.ObjStat.Size = startSrc.Size
    /\ d.rec.ObjStat.LastModified = startSrc.LastModified
    /\ d.rec.ObjStat.Etag = startSrc.Etag

\* Every planned part has a token in the list.
HasToken(ps, n) == \E i \in 1..Len(ps) : ps[i].PartNumber = n /\ ps[i].ETag # <<>>

\* An upload with checkpointing found its own checkpoint, the file unchanged.
C1_Pre ==
    /\ args.mode = "upload" /\ args.cp /\ Ran
    /\ GenuineCp(startDisk, uploadCpMagic) /\ UploadStatSame(startDisk)

\* C1: an UploadFile with checkpointing that finds a checkpoint of its own,
\* with the file unchanged, calls no Initiate, uploads each part the
\* checkpoint has not completed exactly once and no other part, all under the
\* checkpoint's upload id, calls Complete once, and on success the checkpoint
\* file is gone.
C1_UploadResume ==
    /\ []( C1_Pre =>
            LET rec == startDisk.rec
                todo == {i \in 1..Len(rec.Parts) : ~rec.Parts[i].IsCompleted}
            IN  /\ calls.Initiate = 0
                /\ \A n \in 1..MaxN : calls.Part[n] <= 1
                /\ \A n \in 1..MaxN : calls.Part[n] = 1 => n \in todo
                /\ calls.PartIds \subseteq {rec.UploadID}
                /\ Len(calls.Complete) <= 1
                /\ \A k \in 1..Len(calls.Complete) :
                      /\ calls.Complete[k].UploadID = rec.UploadID
                      /\ \A n \in todo : calls.Part[n] = 1 /\ n \in calls.PartOK
                /\ ret = RetNil => Len(calls.Complete) = 1 )
    /\ [][ (C1_Pre /\ ret # RetNil /\ ret' = RetNil) => disk' = NoFile ]_vars

C1_Witness ==
    /\ C1_Pre
    /\ ret = RetNil
    /\ \E i \in 1..Len(startDisk.rec.Parts) : startDisk.rec.Parts[i].IsCompleted
    /\ \E i \in 1..Len(startDisk.rec.Parts) : ~startDisk.rec.Parts[i].IsCompleted

\* A copy with checkpointing found its own checkpoint, the object unchanged.
C2_Pre ==
    /\ args.mode = "copy" /\ args.cp /\ Ran
    /\ GenuineCp(startDisk, copyCpMagic) /\ CopyStatSame(startDisk)

\* C2: a CopyFile with checkpointing that finds a checkpoint of its own, with
\* the source object unchanged, calls no Initiate and copies only the parts
\* the checkpoint has not completed, under the checkpoint's upload id.
C2_CopyResume ==
    C2_Pre =>
        LET rec == startDisk.rec
        IN  /\ calls.Initiate = 0
            /\ \A n \in 1..MaxN : calls.Part[n] >= 1 => ~rec.PartStat[n]
            /\ calls.PartIds \subseteq {rec.CopyID}
            /\ \A k \in 1..Len(calls.Complete) :
                  calls.Complete[k].UploadID = rec.CopyID

\* A run that started a fresh session, saw no part fail, and has returned;
\* no part handed out or transferred twice.
FreshRunReturned ==
    run >= 1 /\ pc = "idle" /\ started /\ ~valid /\ NoPartFailed

DispatchOnce ==
    \A n \in 1..MaxN : handed[n] <= 1 /\ calls.Part[n] <= 1

\* C3 (as stated): no part is handed to more than one worker and no part is
\* transferred twice in an invocation; an invocation that starts a fresh
\* session, has no part failure and has returned made exactly one Initiate, one
\* transfer per planned part and one Complete, and no Abort.
C3_AsStated ==
    /\ DispatchOnce
    /\ FreshRunReturned =>
          /\ calls.Initiate = 1
          /\ \A n \in 1..PlanLen : calls.Part[n] = 1
          /\ Len(calls.Complete) = 1
          /\ calls.Abort = <<>>

\* C3: as above, except that the fresh invocation calls no Abort unless its
\* Complete fails in a run without checkpointing, which then aborts the
\* session once.
C3_ExactlyOnce ==
    /\ DispatchOnce
    /\ FreshRunReturned =>
          /\ calls.Initiate = 1
          /\ \A n \in 1..PlanLen : calls.Part[n] = 1
          /\ Len(calls.Complete) = 1
          /\ calls.Abort = IF calls.Complete[1].ok \/ args.cp
                           THEN <<>> ELSE <<imur.UploadID>>

C3_Witness ==
    /\ FreshRunReturned
    /\ args.routines = MaxRoutines
    /\ PlanLen > args.routines
    /\ ret = RetNil

\* C4: the token list of every Complete call is sorted by part number, holds
\* exactly one token for each planned part, and each token carries the ETag
\* the remote returned for that part in this session.
C4_CompleteTokens ==
    \A k \in 1..Len(calls.Complete) :
        LET c == calls.Complete[k]
        IN  /\ Len(c.Parts) = PlanLen
            /\ \A i \in 1..Len(c.Parts) :
                  c.Parts[i] = [PartNumber |-> i, ETag |-> PartETag(c.UploadID, i)]

\* Complete was called in a resumed run whose checkpoint held the token of
\* a later part while an earlier part was still to be uploaded: the parts
\* completed out of order, across two runs.
C4_Witness ==
    /\ Len(calls.Complete) = 1
    /\ args.mode = "upload" /\ args.cp /\ valid
    /\ startDisk.kind = "file"
    /\ \E i, j \in 1..Len(startDisk.rec.Parts) :
          /\ i < j
          /\ ~startDisk.rec.Parts[i].IsCompleted
          /\ startDisk.rec.Parts[j].IsCompleted

\* C5: an invocation returns nil only after one successful Complete that
\* covers every planned part; after a part failure was received Complete is
\* never called; no Complete is called with a planned part missing.
C5_NoPartialSuccess ==
    /\ ret = RetNil =>
          /\ Len(calls.Complete) = 1
          /\ calls.Complete[1].ok
          /\ sessions[calls.Complete[1].UploadID] = "completed"
    /\ failRecv # <<>> => calls.Complete = <<>> /\ ret.kind = "err"
    /\ \A k \in 1..Len(calls.Complete) :
          \A n \in 1..PlanLen : HasToken(calls.Complete[k].Parts, n)

\* A part failure was received after other parts had already succeeded.
C5_Witness ==
    /\ failRecv # <<>>
    /\ calls.PartOK # {}
    /\ pc = "idle"

\* C6: the error an invocation returns after a part failure is, unchanged, the
\* first failure the coordinator received; later failures are not received.
C6_FirstFailure ==
    failRecv # <<>> => Len(failRecv) = 1 /\ ret = RetErr(failRecv[1])

\* Another worker holds a different failure that is never received.
C6_Witness ==
    /\ failRecv # <<>>
    /\ \E w \in Workers :
          workers[w].pc = "sendFail" /\ workers[w].out[1] # failRecv[1]

\* C7: after a part failure a run without checkpointing has called Abort
\* exactly once, for its session; a run with checkpointing has called no Abort
\* and its session stays open.
C7_AbortPolicy ==
    failRecv # <<>> =>
        IF args.cp
        THEN calls.Abort = <<>> /\ sessions[imur.UploadID] = "open"
        ELSE calls.Abort = <<imur.UploadID>> /\ sessions[imur.UploadID] = "aborted"

C7_Witness ==
    /\ failRecv # <<>>
    /\ args.cp
    /\ disk.kind = "file"
    /\ sessions[imur.UploadID] = "open"

C9_Pre ==
    /\ args.mode = "upload" /\ args.cp /\ Ran
    /\ startDisk.kind = "file"
    /\ ~UploadStatSame(startDisk)

\* C9: an UploadFile with checkpointing that finds a checkpoint whose stored
\* size or modification time differs from the file's does not accept it, calls
\* Initiate once, uses the old upload id in no UploadPart or Complete call,
\* plans every part again, and has uploaded every part of the plan under the
\* new id by the time it calls Complete.
C9_SourceChanged ==
    C9_Pre =>
        LET old == startDisk.rec.UploadID
        IN  /\ ~valid
            /\ calls.Initiate = 1
            /\ old \notin calls.PartIds
            /\ \A k \in 1..Len(calls.Complete) : calls.Complete[k].UploadID # old
            /\ started =>
                  /\ imur.UploadID # old
                  /\ Len(chunks) = PlanLen
                  /\ \A i \in 1..Len(chunks) : chunks[i].Number = i
                  /\ disk.kind = "file" => disk.rec.UploadID # old
            /\ Len(calls.Complete) > 0 =>
                  \A n \in 1..PlanLen : calls.Part[n] = 1 /\ n \in calls.PartOK

C9_Witness ==
    /\ C9_Pre
    /\ GenuineCp(startDisk, uploadCpMagic)
    /\ \E i \in 1..Len(startDisk.rec.Parts) : startDisk.rec.Parts[i].IsCompleted
    /\ ret = RetNil

\* The magic prepare writes in the current mode.
OwnMagic == IF args.mode = "upload" THEN uploadCpMagic ELSE copyCpMagic

\* C10: in each mode, a run with checkpointing accepts the checkpoint it
\* loads if and only if the checkpoint carries that mode's own magic, its
\* stored MD5 is the digest of its content, and its stored fingerprint is that
\* of the current source (the runs whose HEAD of the source failed aside).
C10_ValidIff ==
    (args.cp /\ Ran /\ ret # RetErr(<<"head">>)) =>
        (valid <=>
            /\ GenuineCp(startDisk, OwnMagic)
            /\ IF args.mode = "upload" THEN UploadStatSame(startDisk)
               ELSE CopyStatSame(startDisk))

\* C11: in an upload with checkpointing in which every part transfer but the
\* last part's succeeds, once UploadFile has returned the error the checkpoint
\* on disk marks every part but the last completed and the last part not
\* completed (one part is left to do), whatever the number of workers.
C11_CheckpointAfterFailure ==
    ( /\ args.mode = "upload" /\ args.cp
      /\ run >= 1 /\ pc = "idle" /\ started /\ ~valid
      /\ edits = {}
      /\ PlanLen >= 2
      /\ failRecv # <<>>
      /\ calls.PartOK = 1..(PlanLen - 1)
      /\ calls.Part[PlanLen] = 1 )
    => /\ disk.kind = "file"
       /\ Len(disk.rec.Parts) = PlanLen
       /\ \A i \in 1..(PlanLen - 1) : disk.rec.Parts[i].IsCompleted
       /\ ~disk.rec.Parts[PlanLen].IsCompleted
       /\ Len(todoParts(disk.rec)) = 1

\* C12: in a run with checkpointing, a step that publishes the Data event
\* for part k leaves a checkpoint on disk that marks part k completed and holds
\* its token.
C12_DataAfterSave ==
    [][ ( /\ args.cp
          /\ Len(events') = Len(events) + 1
          /\ events'[Len(events')][1] = "Data" )
        => LET part == Head(results)
               k == part.PartNumber
           IN  /\ disk'.kind = "file"
               /\ IF args.mode = "upload"
                  THEN /\ disk'.rec.Parts[k].IsCompleted
                       /\ disk'.rec.Parts[k].Part = part
                  ELSE /\ disk'.rec.PartStat[k]
                       /\ disk'.rec.CopyParts[k] = part ]_vars

\* C13: a step in which the save of the checkpoint fails ends the run with an
\* error and publishes no event; the run does not go on to Complete.
C13_SaveFailureStops ==
    [][ ("dump" \in edits' /\ "dump" \notin edits)
        => /\ pc' = "idle"
           /\ ret'.kind = "err"
           /\ events' = events ]_vars

\* C14: an invocation whose part size is below the minimum or above the
\* maximum returns an error having issued no remote call (HEAD, Initiate, part
\* transfer, Complete, Abort), started no worker, published no event and left
\* the checkpoint file as it found it, with any Checkpoint and Routines option.
C14_InvalidPartSize ==
    /\ []( (run >= 1 /\ (args.partSize < MinPartSize \/ args.partSize > MaxPartSize))
           => /\ pc = "idle"
              /\ ret.kind = "err"
              /\ calls = ZeroCalls
              /\ sessions = <<>>
              /\ ~started
              /\ events = <<>>
              /\ \A n \in 1..MaxN : handed[n] = 0 )
    /\ [][ ( /\ args.partSize < MinPartSize \/ args.partSize > MaxPartSize
             /\ run' = run + 1 )
           => disk' = disk ]_vars

\* An invocation with checkpointing, two workers requested and a part size
\* above the maximum found a file at the checkpoint path and returned.
C14_Witness ==
    /\ run >= 1 /\ pc = "idle"
    /\ args.partSize > MaxPartSize
    /\ args.cp /\ args.requested = <<MaxRoutines>>
    /\ startDisk = Garbage
    /\ ret.kind = "err"

\* The worker count the Routines option asks for: 1 without the option,
\* else its value brought into 1..100.
RoutineProbe == (0 - 2)..102
Clamp(n, lo, hi) == IF n < lo THEN lo ELSE IF n > hi THEN hi ELSE n
WantedWorkers == IF args.requested = <<>> THEN 1 ELSE Clamp(args.requested[1], 1, 100)
InFlight == {w \in DOMAIN workers : workers[w].pc = "xfer"}
\* getRoutines on every option value probed.
RoutinesClamped ==
    /\ \A n \in RoutineProbe : getRoutines(<<n>>) = Clamp(n, 1, 100)
    /\ getRoutines(<<>>) = 1

\* C15: getRoutines answers clamp(n, 1, 100) to Routines(n) and 1 to no
\* option; a run starts exactly that many workers, and never has more part
\* transfers in flight than that, also when there are fewer parts than workers.
C15_WorkerCount ==
    /\ RoutinesClamped
    /\ Cardinality(DOMAIN workers) = WantedWorkers
    /\ started => \A w \in DOMAIN workers : workers[w].pc # "none"
    /\ ~started => \A w \in DOMAIN workers : workers[w].pc = "none"
    /\ Cardinality(InFlight) <= WantedWorkers

\* More workers than parts were started, and every part is in flight.
C15_Witness ==
    /\ started
    /\ args.requested = <<MaxRoutines>>
    /\ Len(chunks) >= 1
    /\ Len(chunks) < Cardinality(DOMAIN workers)
    /\ Cardinality(InFlight) = Len(chunks)

\* The byte ranges of the plan of a source: part n covers the bytes from
\* (n-1)*partSize to the end of the part, the last part to the end of the source.
ExpectedRanges(size, partSize) ==
    { <<n, (n - 1) * partSize,
        (IF n * partSize < size THEN n * partSize ELSE size) - 1>> :
      n \in 1..((size + partSize - 1) \div partSize) }

\* The byte ranges of the plan of the current invocation's source; the one
\* part of an empty file has no byte.
PlanRanges ==
    IF startSrc.Size = 0
    THEN (IF args.mode = "upload" THEN {<<1, 0, 0 - 1>>} ELSE {})
    ELSE ExpectedRanges(startSrc.Size, args.partSize)

\* The part numbers a run has to transfer: those its checkpoint has not
\* completed, every part of the plan in a fresh run.
ToTransfer ==
    IF ~valid THEN 1..PlanLen
    ELSE IF args.mode = "upload"
         THEN {n \in 1..PlanLen : ~startDisk.rec.Parts[n].IsCompleted}
         ELSE {n \in 1..PlanLen : ~startDisk.rec.PartStat[n]}

\* C16: what a successful run transfers and passes to Complete is a function
\* of the source, the part size and the checkpoint it starts from alone, not
\* of the worker count or the interleaving: the set of (part number, byte
\* range) pairs transferred is the plan's, and the token list is the plan's
\* part numbers in order, each with the remote's token for that part.
C16_Determinism ==
    (run >= 1 /\ ret = RetNil) =>
        /\ calls.Ranges = {r \in PlanRanges : r[1] \in ToTransfer}
        /\ Len(calls.Complete) = 1
        /\ calls.Complete[1].Parts =
              [n \in 1..PlanLen |->
                  [PartNumber |-> n, ETag |-> PartETag(calls.Complete[1].UploadID, n)]]

\* A copy of several parts by the largest number of workers succeeded.
C16_Witness ==
    /\ run >= 1 /\ ret = RetNil
    /\ args.mode = "copy"
    /\ args.requested = <<MaxRoutines>>
    /\ PlanLen > 1
    /\ Cardinality(calls.Ranges) = PlanLen

\* C17: in every run the events report a completed-byte count that never
\* decreases from one event to the next and never exceeds the total, the total
\* is the size of the source, and a Completed event reports completed bytes
\* equal to the total.
C17_ProgressMonotone ==
    /\ \A i \in 1..Len(events) :
          /\ events[i][2] >= 0
          /\ events[i][2] <= events[i][3]
          /\ events[i][3] = startSrc.Size
          /\ events[i][1] = "Completed" => events[i][2] = events[i][3]
    /\ \A i, j \in 1..Len(events) : i < j => events[i][2] <= events[j][2]

\* A resumed run started from bytes already in the checkpoint, published a
\* Data event and then its Completed event.
C17_Witness ==
    /\ valid
    /\ Len(events) >= 3
    /\ events[1][1] = "Started" /\ events[1][2] > 0
    /\ events[2][1] = "Data" /\ events[2][2] > events[1][2]
    /\ events[Len(events)][1] = "Completed"

\* C18: once the aggregator has received a part failure, the Failed event
\* is the last event of the run: no Data event follows, whatever is still
\* queued in results or delivered later.
C18_NoDataAfterFailure ==
    failRecv # <<>> =>
        /\ events # <<>>
        /\ events[Len(events)][1] = "Failed"
        /\ \A i \in 1..(Len(events) - 1) : events[i][1] # "Failed"

\* The failure was received while a result was queued and another worker had
\* a transferred part to deliver.
C18_Witness ==
    /\ failRecv # <<>>
    /\ results # <<>>
    /\ \E w \in DOMAIN workers : workers[w].pc = "deliver"

\* The bytes of the parts the checkpoint a run resumes from has completed.
DoneAtStart ==
    IF ~valid THEN 0
    ELSE IF args.mode = "upload" THEN getCompletedBytes(startDisk.rec)
    ELSE copyGetCompletedBytes(startDisk.rec)

\* C19: a run that has started its workers has published exactly one Started
\* event, as its first event, reporting the bytes already completed in the
\* checkpoint (0 in a fresh run), and no Started event after it.
C19_StartedOnce ==
    started =>
        /\ events # <<>>
        /\ events[1] = Event("Started", DoneAtStart, startSrc.Size)
        /\ \A i \in 2..Len(events) : events[i][1] # "Started"

\* C20: a run has published a Completed event only if its Complete call has
\* succeeded, and a run that has returned has published one if and only if
\* its Complete call succeeded; for upload and copy, with and without
\* checkpointing.
C20_CompletedIffComplete ==
    LET published == \E i \in 1..Len(events) : events[i][1] = "Completed"
        succeeded == \E k \in 1..Len(calls.Complete) : calls.Complete[k].ok
    IN  /\ published => succeeded
        /\ (run >= 1 /\ pc = "idle") => (published <=> succeeded)

\* C21: a run that has returned an error after it published Started has
\* published exactly one Failed event, as its last event, carrying the
\* completed bytes reached; whether a part transfer or Complete failed.
C21_FailedOnError ==
    (run >= 1 /\ pc = "idle" /\ ret.kind = "err" /\ events # <<>>) =>
        /\ events[Len(events)] = Event("Failed", completedBytes, totalBytes)
        /\ \A i \in 1..(Len(events) - 1) : events[i][1] # "Failed"

\* Source sizes and part sizes (in KiB) the copy planner is probed with: below,
\* at and above one part, exact multiples, and a remainder of one.
PlanSizes == {1, 99, 100, 101, 150, 200, 201, 250, 300, 1000}
PlanPartSizes == {100, 101, 150, 250}

\* A plan p of a source of the given size: numbered 1..n in order, from byte
\* 0, each part starting at the byte after the previous part's last byte, all
\* parts but the last of partSize bytes, the last one ending at size - 1, and
\* the sizes of the parts summing to size.
PlanShape(p, size, partSize) ==
    /\ Len(p) >= 1
    /\ \A i \in 1..Len(p) : p[i].Number = i
    /\ p[1].Start = 0
    /\ \A i \in 2..Len(p) : p[i].Start = p[i - 1].End + 1
    /\ \A i \in 1..(Len(p) - 1) : p[i].End - p[i].Start + 1 = partSize
    /\ p[Len(p)].End = size - 1
    /\ \A i \in 1..Len(p) : p[i].Start <= p[i].End
    /\ getSrcObjectBytes(p) = size

CopyPlansShaped ==
    \A size \in PlanSizes : \A partSize \in PlanPartSizes :
        PlanShape(getCopyParts(size, partSize), size, partSize)

\* The plan a copy run made: the parts handed to the scheduler without
\* checkpoint, the parts of the checkpoint record with it.
CopyPlanMade == IF args.cp THEN cp.Parts ELSE chunks

\* C22: for every source size above 0 and every part size, getCopyParts gives
\* a plan numbered 1..n that starts at byte 0, is contiguous, has parts of
\* part_size bytes but for the last, ends at size-1 and sums to the size; and
\* the plan of every copy run that planned a source of a size above 0 is such
\* a plan of its source.
C22_CopyPlan ==
    /\ CopyPlansShaped
    /\ (args.mode = "copy" /\ started /\ ~valid /\ startSrc.Size > 0) =>
          PlanShape(CopyPlanMade, startSrc.Size, args.partSize)

\* A copy run has planned a source that needs a shorter last part, and a
\* worker has the last part.
C22_Witness ==
    /\ args.mode = "copy" /\ started /\ ~valid
    /\ Len(CopyPlanMade) = 3
    /\ copyPartSize(CopyPlanMade[3]) < args.partSize
    /\ \E w \in DOMAIN workers :
          /\ workers[w].pc = "xfer"
          /\ workers[w].chunk[1] = CopyPlanMade[3]

\* C23: a run whose source needs more than 10,000 parts of the part size has
\* issued no Initiate and no part transfer, has started no worker, and its
\* planning step returns an error; for UploadFile and for CopyFile.
C23_TooManyParts ==
    (run >= 1 /\ ~partSizeInvalid(args.partSize)
              /\ CeilDiv(startSrc.Size, args.partSize) > MaxParts) =>
        /\ calls.Initiate = 0
        /\ calls.Ranges = {}
        /\ ~started
        /\ pc = "idle" => ret.kind = "err"

\* isValid of the run's mode for a loaded record, against the source
\* fingerprint the record itself stores.
ValidAsStored(rec) ==
    IF args.mode = "upload"
    THEN uploadIsValid(rec, [Size |-> rec.FileStat.Size,
                             LastModified |-> rec.FileStat.LastModified])
    ELSE copyIsValid(rec, rec.ObjStat)

\* The records that differ from rec in one stored field, the MD5 field kept.
OneFieldChanged(rec) ==
    LET flipped(s) == [s EXCEPT ![1] = ~@]
    IN  { [rec EXCEPT !.Magic = m] :
            m \in {uploadCpMagic, copyCpMagic, downloadCpMagic, ""} \ {rec.Magic} }
        \cup (IF args.mode = "upload"
              THEN { [rec EXCEPT !.UploadID = @ + 1],
                     [rec EXCEPT !.ObjectKey = <<>>],
                     [rec EXCEPT !.FilePath = <<>>],
                     [rec EXCEPT !.FileStat.Size = @ + 1],
                     [rec EXCEPT !.FileStat.LastModified = OtherOf(Stamps, @)],
                     [rec EXCEPT !.Parts[1].IsCompleted = ~@],
                     [rec EXCEPT !.Parts[1].Chunk.Size = @ + 1],
                     [rec EXCEPT !.Parts[1].Part.ETag = <<"edited">>] }
              ELSE { [rec EXCEPT !.CopyID = @ + 1],
                     [rec EXCEPT !.DestObjectKey = <<>>],
                     [rec EXCEPT !.SrcObjectKey = ""],
                     [rec EXCEPT !.ObjStat.Size = @ + 1],
                     [rec EXCEPT !.ObjStat.Etag = OtherOf(ObjEtags, @)],
                     [rec EXCEPT !.PartStat = flipped(@)],
                     [rec EXCEPT !.Parts[1].End = @ + 1] })

\* The checkpoint path holds what dump wrote, unchanged since.
DumpOnDisk == disk.kind = "file" /\ edits = {}

\* C24: a record dump wrote loads and is valid for its mode against the
\* source fingerprint it stores, and the same record with any one field
\* changed and its MD5 kept is not valid.
C24_RoundTrip ==
    DumpOnDisk =>
        /\ ValidAsStored(load(disk, ZeroCp(args.mode)))
        /\ \A r \in OneFieldChanged(load(disk, ZeroCp(args.mode))) : ~ValidAsStored(r)

\* The checkpoint path the options and arguments call for: the path of the
\* Checkpoint option when it has one, else the local file path (UploadFile)
\* or the whole destination object key (CopyFile) followed by ".cp".
WantedCpPath ==
    IF args.cpOption[1].FilePath # <<>> THEN args.cpOption[1].FilePath
    ELSE (IF args.mode = "upload" THEN args.filePath ELSE args.objectKey) \o <<".cp">>

\* C25: a checkpointed run reads, writes and removes its checkpoint at the
\* path supplied, and at <local file>.cp (UploadFile) or <destination
\* object key>.cp (CopyFile) when the supplied path is empty.
C25_CheckpointPath ==
    (run >= 1 /\ args.cp /\ pc # "start" /\ ~partSizeInvalid(args.partSize)) =>
        calls.CpFiles = {WantedCpPath}

\* The upload id and the completion flags of a checkpoint record.
CpSessionOf(rec) == IF args.mode = "upload" THEN rec.UploadID ELSE rec.CopyID
CpFlagsOf(rec) ==
    IF args.mode = "upload" THEN [i \in 1..Len(rec.Parts) |-> rec.Parts[i].IsCompleted]
    ELSE rec.PartStat

\* C26: from the start of its workers until its Complete succeeds, a
\* checkpointed run that initiated a fresh session has a checkpoint on disk
\* that names its upload id, with no part marked completed as long as no
\* result was received; so also when it fails before any part completes.
C26_InitialCheckpoint ==
    (args.cp /\ started /\ ~valid /\ edits = {} /\ ret # RetNil) =>
        /\ disk.kind = "file"
        /\ CpSessionOf(disk.rec) = imur.UploadID
        /\ completed = 0 => \A i \in DOMAIN CpFlagsOf(disk.rec) : ~CpFlagsOf(disk.rec)[i]

\* C27: once the aggregator has closed die, no worker takes another part
\* to transfer: the only transfers that still return are those of workers
\* that held their part when die was closed.
C27_NoTransferAfterCancel ==
    [][ (die /\ die') =>
            \A w \in DOMAIN workers :
                workers'[w].pc = "xfer" => workers[w].pc = "xfer" ]_vars

\* Every goroutine of the run has returned.
AllReturned == jobsClosed /\ \A w \in DOMAIN workers : workers[w].pc = "done"

\* C28: in every run that has started its workers, the scheduler and every
\* worker eventually return, whatever the worker count and whichever parts
\* fail, also after the coordinator has returned.
C28_WorkersTerminate ==
    [](started => <>AllReturned)

\* C29: every invocation eventually returns, whatever the worker count, the
\* number of parts left to do (none included) and whichever parts fail; and
\* the step in which the aggregator receives a part failure is the step in
\* which the coordinator returns that error, whatever the other workers do.
C29_CoordinatorReturns ==
    /\ [](pc # "idle" => <>(pc = "idle"))
    /\ [][ Len(failRecv') > Len(failRecv) =>
              /\ pc' = "idle"
              /\ ret' = RetErr(failRecv'[Len(failRecv')]) ]_vars

\* A run of the largest worker count has resumed a checkpoint with no part
\* left to do (every part was transferred and Complete failed before), and
\* has returned success.
C29_Witness ==
    /\ run = MaxRuns /\ pc = "idle" /\ started
    /\ valid /\ chunks = <<>> /\ ret = RetNil
    /\ args.routines = MaxRoutines

\* C30: as long as nothing but the program has written to the checkpoint
\* path, it holds no file or one complete record, as dump made it: never a
\* file that was cut short by a save that stopped half way.
C30_AtomicSave ==
    "cp" \notin edits =>
        \/ disk = NoFile
        \/ /\ disk.kind = "file"
           /\ disk.rec.MD5 = cpDigest(disk.rec)

\* A token the remote returned for part n, in some session.
ReturnedFor(tok, n) ==
    /\ tok.PartNumber = n
    /\ tok.ETag # <<>>
    /\ \E id \in DOMAIN sessions : tok.ETag = PartETag(id, n)

\* A checkpoint record whose lists agree: one plan entry, one flag and one
\* token slot per part, and a token returned for the part wherever the flag
\* is set. An upload record keeps the three in one list of structs.
RecordShaped(rec) ==
    IF args.mode = "upload"
    THEN \A i \in 1..Len(rec.Parts) :
            /\ DOMAIN rec.Parts[i] = {"Chunk", "Part", "IsCompleted"}
            /\ rec.Parts[i].IsCompleted =>
                  ReturnedFor(rec.Parts[i].Part, rec.Parts[i].Chunk.Number)
    ELSE /\ Len(rec.Parts) = Len(rec.PartStat)
         /\ Len(rec.Parts) = Len(rec.CopyParts)
         /\ \A i \in 1..Len(rec.Parts) :
               rec.PartStat[i] => ReturnedFor(rec.CopyParts[i], rec.Parts[i].Number)

\* C31: as long as nothing but the program has written the checkpoint file,
\* the record in memory and the record on disk have a part list, a flag list
\* and a token list of one length, and every part flagged completed holds the
\* token of its own part number with the non-empty ETag the remote returned.
C31_RecordShape ==
    "cp" \notin edits =>
        /\ RecordShaped(cp)
        /\ disk.kind = "file" => RecordShaped(disk.rec)

\* A copy checkpoint on disk has a later part completed before an earlier one.
C31_Witness ==
    /\ "cp" \notin edits
    /\ args.mode = "copy"
    /\ disk.kind = "file"
    /\ Len(disk.rec.Parts) = 3
    /\ ~disk.rec.PartStat[1] /\ disk.rec.PartStat[2]
    /\ disk.rec = [cp EXCEPT !.MD5 = disk.rec.MD5]

\* The plan a run made: the parts handed to the scheduler without
\* checkpoint, the parts of the checkpoint record with it.
PlanMade == IF args.cp THEN cp.Parts ELSE chunks

\* C32: the plan of every run that planned, whatever the size of its source
\* (0 included), has at least one part, and no Complete call carries an empty
\* token list.
C32_PlanNonEmpty ==
    /\ (started /\ ~valid) => Len(PlanMade) >= 1
    /\ \A k \in 1..Len(calls.Complete) : calls.Complete[k].Parts # <<>>

\* A run with checkpointing and a part size in range found a file that load
\* could not read or parse.
C33_Pre ==
    /\ args.cp /\ Ran /\ ~partSizeInvalid(args.partSize)
    /\ startDisk.kind \notin {"file", "none"}

\* C33: a run that finds a checkpoint file it cannot read or parse does not
\* accept it, removes it, and when it starts its workers has initiated one new
\* session and plans every part; the upload id of the file is used in no call.
C33_UnreadableIsAbsent ==
    C33_Pre =>
        /\ ~valid
        /\ disk.kind \in {"none", "file"}
        /\ started =>
              /\ calls.Initiate = 1
              /\ imur.UploadID = Len(sessions)
              /\ Len(chunks) = PlanLen
              /\ \A i \in 1..Len(chunks) : chunks[i].Number = i
        /\ startDisk.kind = "mistyped" =>
              /\ CpSessionOf(startDisk.rec) \notin calls.PartIds
              /\ \A k \in 1..Len(calls.Complete) :
                    calls.Complete[k].UploadID # CpSessionOf(startDisk.rec)

\* The session is finished, or the checkpoint file on disk records it.
Accounted(id) ==
    \/ sessions[id] \in {"completed", "aborted"}
    \/ /\ disk.kind = "file"
       /\ CpSessionOf(disk.rec) = id

\* C34: whenever an invocation has returned, with nothing changed from
\* outside and no write failed, every session Initiate has opened so far is
\* completed, aborted, or recorded in the checkpoint file on disk.
C34_NoOrphanSession ==
    (run >= 1 /\ pc = "idle" /\ edits = {}) =>
        \A id \in DOMAIN sessions : Accounted(id)

\* The part numbers a checkpoint record marks completed.
FlaggedIn(rec) == {i \in DOMAIN CpFlagsOf(rec) : CpFlagsOf(rec)[i]}
CpTokensOf(rec) ==
    IF args.mode = "upload" THEN [i \in 1..Len(rec.Parts) |-> rec.Parts[i].Part]
    ELSE rec.CopyParts

\* The parts that were completed before the current run transferred any: those
\* of the checkpoint it found, unless it has prepared a fresh one.
FlaggedBefore ==
    IF startDisk.kind = "file" /\ (valid \/ ~started)
    THEN FlaggedIn(startDisk.rec) ELSE {}

\* C35: as long as nothing but the program has written the checkpoint file,
\* every part the file marks completed carries the token the remote returned
\* for that part under the upload id the file records, and was either marked
\* in the checkpoint the run resumed or transferred with success in this run.
C35_CompletedWereAcknowledged ==
    ("cp" \notin edits /\ disk.kind = "file") =>
        /\ CpSessionOf(disk.rec) \in DOMAIN sessions
        /\ \A i \in FlaggedIn(disk.rec) :
              /\ CpTokensOf(disk.rec)[i] =
                    [PartNumber |-> i, ETag |-> PartETag(CpSessionOf(disk.rec), i)]
              /\ i \in FlaggedBefore \cup calls.PartOK

\* A resumed run has added a part to the parts its checkpoint held.
C35_Witness ==
    /\ "cp" \notin edits /\ disk.kind = "file"
    /\ valid
    /\ FlaggedBefore # {}
    /\ FlaggedIn(disk.rec) \ FlaggedBefore # {}

\* The object keys the part transfers and the Complete calls of the current
\* run were addressed to.
KeysUsed == calls.PartKeys \cup {calls.Complete[k].Key : k \in 1..Len(calls.Complete)}

\* C36: the part transfers and the Complete call of one run are addressed to
\* one object key, also in a resumed upload that is given another object key
\* than the one its checkpoint records.
C36_OneKey == Cardinality(KeysUsed) <= 1

\* C37: in a copy with checkpointing the completed bytes are, after every
\* result received, the bytes of the parts the checkpoint marks completed, and
\* no result makes the coordinator index its part list out of range; in fresh
\* runs and in runs that resume with fewer parts to do than the plan has.
C37_CopyIncrement ==
    (args.mode = "copy" /\ args.cp /\ started) =>
        /\ ret.kind # "panic"
        /\ completedBytes = copyGetCompletedBytes(cp)

\* Complete has failed in an upload with checkpointing, and neither a save
\* failed nor was the checkpoint file written from outside.
C38_CompleteFailed ==
    /\ args.mode = "upload" /\ args.cp /\ pc = "idle"
    /\ edits \cap {"cp", "dump"} = {}
    /\ Len(calls.Complete) = 1 /\ ~calls.Complete[1].ok

\* An upload with checkpointing found its own checkpoint with every part
\* completed, the file unchanged.
C38_Pre ==
    /\ C1_Pre
    /\ \A i \in 1..Len(startDisk.rec.Parts) : startDisk.rec.Parts[i].IsCompleted

C39_NoCheckpointTouched ==
    (args.cpOption = <<>> /\ run >= 1) =>
        /\ calls.CpFiles = {}
        /\ disk = startDisk

\* A run without the Checkpoint option, with a file at the default checkpoint
\* path, has failed on a part after another part had succeeded.
C39_Witness ==
    /\ args.cpOption = <<>> /\ run >= 1 /\ pc = "idle"
    /\ startDisk = Garbage
    /\ failRecv # <<>> /\ calls.PartOK # {}

\* C40: an UploadFile given the option Checkpoint(true, "") uses the
\* checkpoint path <its own local file>.cp and no other, in the first call
\* and in a later call that is given the same option value and another local
\* file.
C40_OptionUnchanged ==
    ( /\ args.mode = "upload" /\ args.cp
      /\ args.cpOption[1].FilePath = <<>>
      /\ run >= 1 /\ pc # "start" /\ ~partSizeInvalid(args.partSize) )
    => calls.CpFiles = {args.filePath \o CheckpointFileSuffix}

====
